---- MODULE Spec2Model ----
(***************************************************************************)
(* State-machine model of scripts/dependency_tracker.py: the task store,   *)
(* the blocker store, the mutating operations of DependencyTracker and its *)
(* read operations (critical path, ready tasks) as operators.              *)
(*                                                                         *)
(* Identifiers.  add_task and add_blocker draw ids with uuid.uuid4(); the  *)
(* code only compares ids for equality and uses them as dict keys, so the  *)
(* model names the k-th created task k and the k-th created blocker k.     *)
(* Python dicts iterate in insertion order, which is then the order of the *)
(* sequences `tasks` and `blockers`.  A dependency list is caller data and *)
(* may hold any id of TaskIds, created or not.                             *)
(*                                                                         *)
(* Time.  datetime.now() is the variable `now`, in whole days; no day      *)
(* passes in the two specifications below.                                 *)
(*                                                                         *)
(* Calls.  `last` records the latest call: the operation, the task or      *)
(* blocker id it was given (for add_task, the id it created) and whether   *)
(* it returned or raised.  `steps` counts the calls made in Spec.          *)
(*                                                                         *)
(* Files.  `file` is the content of the file save_to_file writes and       *)
(* load_from_file reads.                                                   *)
(*                                                                         *)
(* `probe` holds the arguments and the result of the health-score          *)
(* arithmetic in SpecScore, where it is applied as a function of counts.   *)
(*                                                                         *)
(* `pending` is the mutating call that has begun and not yet returned, in  *)
(* SpecConcurrent, where the calls run statement by statement; None when   *)
(* no call is in progress.                                                 *)
(*                                                                         *)
(* The specifications share the actions: Spec explores the task and        *)
(* blocker lifecycle on small stores, SpecGraph builds task graphs with    *)
(* add_task and reads them, SpecCycles builds them only, SpecRisk builds   *)
(* chains of long tasks, SpecSort adds tasks of every priority,            *)
(* SpecStatus adds completion percentages,                                 *)
(* SpecTime lets days pass, SpecDates follows one task through blockers,   *)
(* SpecConcurrent runs the mutating calls statement by statement,          *)
(* SpecFile saves and loads, SpecScore applies the score.                  *)
(*                                                                         *)
(* Free-text payload that no operation reads (name, deliverables,          *)
(* success_criteria, impact, assigned_to) is left out of the records.      *)
(***************************************************************************)
EXTENDS Integers, Sequences, FiniteSets, TLC

VARIABLES tasks, blockers, now, last, steps, file, probe, pending

vars == <<tasks, blockers, now, last, steps, file, probe, pending>>

(* ------------------------------ bounds -------------------------------- *)

\* Tasks created in the lifecycle specification Spec.
MaxTasks == 2

\* Blockers created in Spec.
MaxBlockers == 2

\* Calls made in Spec.
MaxSteps == 5

\* Tasks created in the graph specification SpecGraph.
MaxGraphTasks == 3

\* Dependency entries summed over all tasks in SpecGraph.
MaxGraphEdges == 3

\* SpecStatus: tasks, blockers and calls.
StatusTasks == 1

StatusBlockers == 1

StatusSteps == 4

\* SpecTime: tasks, blockers, calls and days.
TimeTasks == 2

TimeBlockers == 1

TimeSteps == 4

MaxTime == 2

\* SpecDates: tasks, blockers and calls.
DatesTasks == 1

DatesBlockers == 1

DatesSteps == 5

\* SpecRisk: tasks.
RiskTasks == 2

\* SpecSort: tasks.
SortTasks == 3

\* SpecConcurrent: tasks, blockers and calls.
ConcTasks == 2

ConcBlockers == 1

ConcSteps == 4

\* SpecFile: tasks, blockers and calls.
FileTasks == 2

FileBlockers == 1

FileSteps == 4

\* SpecScore: the greatest count given to the health score.
MaxCount == 7

(* ------------------------------ values -------------------------------- *)

\* Python None for an Optional[datetime] / Optional[float]: the empty tuple;
\* a present value v is <<v>>.
None == <<>>

Some(v) == <<v>>

\* The file: it does not exist, it is empty, or it holds a JSON document
\* with "tasks" and "blockers".
NoFile == [kind |-> "absent"]

EmptyFile == [kind |-> "empty"]

JsonFile(task_data, blocker_data) ==
    [kind |-> "json", tasks |-> task_data, blockers |-> blocker_data]

\* Outcome of a call: it returned, or it raised
\* ValueError(f"Task {task_id} not found") / ValueError(f"Blocker ... not found").
Returned == "ok"

NotFound == "ValueError: not found"

\* predecessors[task_id] = None in calculate_critical_path.
NoTask == 0

NOT_STARTED == "not_started"

IN_PROGRESS == "in_progress"

BLOCKED == "blocked"

COMPLETED == "completed"

ON_HOLD == "on_hold"

TaskStatus == {NOT_STARTED, IN_PROGRESS, BLOCKED, COMPLETED, ON_HOLD}

CRITICAL == "critical"

HIGH == "high"

MEDIUM == "medium"

LOW == "low"

Priority == {CRITICAL, HIGH, MEDIUM, LOW}

\* project_end_date - project_start_date, in days.
ProjectDays == 112

(* ----------------------------- helpers -------------------------------- *)

\* dict keys of self.tasks / self.blockers.
TaskKeys == 1..Len(tasks)

BlockerKeys == 1..Len(blockers)

\* Number of occurrences of x in the list s.
RECURSIVE Count(_, _)
Count(s, x) ==
    IF s = <<>> THEN 0
    ELSE (IF Head(s) = x THEN 1 ELSE 0) + Count(Tail(s), x)

\* x in s, for a list s.
InList(x, s) == \E i \in 1..Len(s) : s[i] = x

\* n copies of x.
Repeat(x, n) == [i \in 1..n |-> x]

(* ------------------------------ AddTask ------------------------------- *)

\* Task(...) as constructed by add_task.
NewTask(agent, estimated_days, dependencies, priority) ==
    [agent |-> agent,
     status |-> NOT_STARTED,
     priority |-> priority,
     estimated_days |-> estimated_days,
     actual_days |-> 0,
     start_date |-> None,
     end_date |-> None,
     dependencies |-> dependencies,
     blocks |-> <<>>,
     completion_percentage |-> 0,
     notes |-> ""]

\* The store after `self.tasks[task_id] = task` and the loop
\* `for dep_id in task.dependencies: if dep_id in self.tasks:
\*      self.tasks[dep_id].blocks.append(task_id)`.
\* The new task is already in the store when the loop runs, so a dependency
\* entry equal to the new id appends to the new task's own blocks.
WithBlocksUpdated(store, task_id) ==
    LET deps == store[task_id].dependencies
    IN  [d \in 1..Len(store) |->
            [store[d] EXCEPT !.blocks = @ \o Repeat(task_id, Count(deps, d))]]

AddTask(agent, estimated_days, dependencies, priority) ==
    LET task_id == Len(tasks) + 1
        task == NewTask(agent, estimated_days, dependencies, priority)
    IN  /\ tasks' = WithBlocksUpdated(Append(tasks, task), task_id)
        /\ last' = [op |-> "add_task", id |-> task_id, result |-> Returned]
        /\ UNCHANGED <<blockers, now>>

(* ---------------------------- UpdateStatus ---------------------------- *)

\* update_task_status without `task.completion_percentage = 100` in its
\* COMPLETED branch.
UpdatedTaskKeepsPercentage(task, status, completion_percentage, notes, at) ==
    LET old_status == task.status
        t1 == [task EXCEPT !.status = status]
        t2 == IF completion_percentage /= None
              THEN [t1 EXCEPT !.completion_percentage = completion_percentage[1]]
              ELSE t1
        t3 == IF notes /= "" THEN [t2 EXCEPT !.notes = notes] ELSE t2
    IN  IF old_status = NOT_STARTED /\ status = IN_PROGRESS
        THEN [t3 EXCEPT !.start_date = Some(at)]
        ELSE IF status = COMPLETED
        THEN LET t4 == [t3 EXCEPT !.end_date = Some(at)]
             IN  IF t4.start_date /= None
                 THEN [t4 EXCEPT !.actual_days = at - t4.start_date[1]]
                 ELSE t4
        ELSE t3

\* The task after update_task_status has run on it at time `at`.
\* completion_percentage is None or Some(p); notes is a string ("" is falsy).
UpdatedTask(task, status, completion_percentage, notes, at) ==
    LET old_status == task.status
        t1 == [task EXCEPT !.status = status]
        t2 == IF completion_percentage /= None
              THEN [t1 EXCEPT !.completion_percentage = completion_percentage[1]]
              ELSE t1
        t3 == IF notes /= "" THEN [t2 EXCEPT !.notes = notes] ELSE t2
    IN  IF old_status = NOT_STARTED /\ status = IN_PROGRESS
        THEN [t3 EXCEPT !.start_date = Some(at)]
        ELSE IF status = COMPLETED
        THEN LET t4 == [t3 EXCEPT !.end_date = Some(at),
                                  !.completion_percentage = 100]
             IN  IF t4.start_date /= None
                 THEN [t4 EXCEPT !.actual_days = at - t4.start_date[1]]
                 ELSE t4
        ELSE t3

\* update_task_status with a test it does not have: starting a task that has
\* a dependency in the store which is not COMPLETED raises.
UpdateStatusChecked(task_id, status, completion_percentage, notes) ==
    IF task_id \notin TaskKeys
    THEN /\ last' = [op |-> "update_task_status", id |-> task_id,
                     result |-> NotFound]
         /\ UNCHANGED <<tasks, blockers, now>>
    ELSE IF /\ status = IN_PROGRESS
            /\ \E i \in 1..Len(tasks[task_id].dependencies) :
                  LET dep_id == tasks[task_id].dependencies[i]
                  IN  dep_id \in TaskKeys /\ tasks[dep_id].status /= COMPLETED
    THEN /\ last' = [op |-> "update_task_status", id |-> task_id,
                     result |-> "ValueError: dependency not completed"]
         /\ UNCHANGED <<tasks, blockers, now>>
    ELSE /\ tasks' = [tasks EXCEPT ![task_id] =
                        UpdatedTask(@, status, completion_percentage, notes, now)]
         /\ last' = [op |-> "update_task_status", id |-> task_id, result |-> Returned]
         /\ UNCHANGED <<blockers, now>>

UpdateStatus(task_id, status, completion_percentage, notes) ==
    IF task_id \notin TaskKeys
    THEN /\ last' = [op |-> "update_task_status", id |-> task_id,
                     result |-> NotFound]
         /\ UNCHANGED <<tasks, blockers, now>>
    ELSE /\ tasks' = [tasks EXCEPT ![task_id] =
                        UpdatedTask(@, status, completion_percentage, notes, now)]
         /\ last' = [op |-> "update_task_status", id |-> task_id, result |-> Returned]
         /\ UNCHANGED <<blockers, now>>

(* ------------------------------ blockers ------------------------------ *)

\* Blocker(...) as constructed by add_blocker.
NewBlocker(task_id, blocker_type, description, at) ==
    [task_id |-> task_id,
     blocker_type |-> blocker_type,
     description |-> description,
     reported_date |-> at,
     resolved_date |-> None,
     resolution_notes |-> "",
     escalated |-> FALSE]

\* BlockedStatus without the test for COMPLETED.
BlockedStatusAlways(status) == BLOCKED

\* `if task.status != TaskStatus.COMPLETED: task.status = TaskStatus.BLOCKED`
BlockedStatus(status) == IF status /= COMPLETED THEN BLOCKED ELSE status

\* add_blocker without its `if task_id not in self.tasks` test: the blocker
\* is stored before self.tasks[task_id] raises KeyError.
AddBlockerUnchecked(task_id, blocker_type, description) ==
    /\ blockers' = Append(blockers,
                          NewBlocker(task_id, blocker_type, description, now))
    /\ tasks' = IF task_id \in TaskKeys
                THEN [tasks EXCEPT ![task_id].status = BlockedStatus(@)]
                ELSE tasks
    /\ last' = [op |-> "add_blocker", id |-> task_id,
                result |-> IF task_id \in TaskKeys THEN Returned ELSE "KeyError"]
    /\ UNCHANGED now

AddBlocker(task_id, blocker_type, description) ==
    IF task_id \notin TaskKeys
    THEN /\ last' = [op |-> "add_blocker", id |-> task_id, result |-> NotFound]
         /\ UNCHANGED <<tasks, blockers, now>>
    ELSE /\ blockers' = Append(blockers,
                               NewBlocker(task_id, blocker_type, description, now))
         /\ tasks' = [tasks EXCEPT ![task_id].status = BlockedStatus(@)]
         /\ last' = [op |-> "add_blocker", id |-> task_id, result |-> Returned]
         /\ UNCHANGED now

\* [b for b in self.blockers.values() if b.task_id == task_id and
\*  b.resolved_date is None], as the set of their ids, in a blocker store bs.
ActiveBlockers(bs, task_id) ==
    {b \in 1..Len(bs) : bs[b].task_id = task_id /\ bs[b].resolved_date = None}

\* resolve_blocker writing datetime.now() to reported_date as well.
ResolvedBlockerRestamps(blocker, resolution_notes, at) ==
    [blocker EXCEPT !.reported_date = at,
                    !.resolved_date = Some(at),
                    !.resolution_notes = resolution_notes]

\* The blocker after `blocker.resolved_date = datetime.now();
\* blocker.resolution_notes = resolution_notes`.
ResolvedBlocker(blocker, resolution_notes, at) ==
    [blocker EXCEPT !.resolved_date = Some(at),
                    !.resolution_notes = resolution_notes]

\* UnblockedStatus without the test for other open blockers.
UnblockedStatusAnyway(status, active_blockers) ==
    IF status = BLOCKED THEN NOT_STARTED ELSE status

\* `if not active_blockers and task.status == TaskStatus.BLOCKED:
\*      task.status = TaskStatus.NOT_STARTED`
UnblockedStatus(status, active_blockers) ==
    IF active_blockers = {} /\ status = BLOCKED THEN NOT_STARTED ELSE status

\* resolve_blocker clearing the start_date and the completion_percentage of
\* the task it puts back to NOT_STARTED.
ResolveBlockerFromScratch(blocker_id, resolution_notes) ==
    IF blocker_id \notin BlockerKeys
    THEN /\ last' = [op |-> "resolve_blocker", id |-> blocker_id,
                     result |-> NotFound]
         /\ UNCHANGED <<tasks, blockers, now>>
    ELSE LET bs == [blockers EXCEPT ![blocker_id] =
                        ResolvedBlocker(@, resolution_notes, now)]
             task_id == blockers[blocker_id].task_id
             status == UnblockedStatus(tasks[task_id].status,
                                       ActiveBlockers(bs, task_id))
         IN  /\ blockers' = bs
             /\ tasks' = IF status = tasks[task_id].status THEN tasks
                         ELSE [tasks EXCEPT ![task_id].status = status,
                                            ![task_id].start_date = None,
                                            ![task_id].completion_percentage = 0]
             /\ last' = [op |-> "resolve_blocker", id |-> blocker_id,
                         result |-> Returned]
             /\ UNCHANGED now

ResolveBlocker(blocker_id, resolution_notes) ==
    IF blocker_id \notin BlockerKeys
    THEN /\ last' = [op |-> "resolve_blocker", id |-> blocker_id,
                     result |-> NotFound]
         /\ UNCHANGED <<tasks, blockers, now>>
    ELSE LET bs == [blockers EXCEPT ![blocker_id] =
                        ResolvedBlocker(@, resolution_notes, now)]
             task_id == blockers[blocker_id].task_id
         IN  /\ blockers' = bs
             /\ tasks' = [tasks EXCEPT ![task_id].status =
                            UnblockedStatus(@, ActiveBlockers(bs, task_id))]
             /\ last' = [op |-> "resolve_blocker", id |-> blocker_id,
                         result |-> Returned]
             /\ UNCHANGED now

\* escalate_blocker flipping the flag instead of setting it.
EscalateBlockerToggles(blocker_id) ==
    IF blocker_id \notin BlockerKeys
    THEN /\ last' = [op |-> "escalate_blocker", id |-> blocker_id,
                     result |-> NotFound]
         /\ UNCHANGED <<tasks, blockers, now>>
    ELSE /\ blockers' = [blockers EXCEPT ![blocker_id].escalated = ~@]
         /\ last' = [op |-> "escalate_blocker", id |-> blocker_id, result |-> Returned]
         /\ UNCHANGED <<tasks, now>>

EscalateBlocker(blocker_id) ==
    IF blocker_id \notin BlockerKeys
    THEN /\ last' = [op |-> "escalate_blocker", id |-> blocker_id,
                     result |-> NotFound]
         /\ UNCHANGED <<tasks, blockers, now>>
    ELSE /\ blockers' = [blockers EXCEPT ![blocker_id].escalated = TRUE]
         /\ last' = [op |-> "escalate_blocker", id |-> blocker_id, result |-> Returned]
         /\ UNCHANGED <<tasks, now>>

(* ----------------------------- ready tasks ---------------------------- *)

\* priority_order in get_ready_tasks.
PriorityOrder(priority) ==
    CASE priority = CRITICAL -> 0
      [] priority = HIGH -> 1
      [] priority = MEDIUM -> 2
      [] priority = LOW -> 3

\* The sort key of task x is less than that of task y: with this test for
\* KeyLeq a task goes in front of the tasks of equal key.
KeyLess(store, x, y) ==
    \/ PriorityOrder(store[x].priority) < PriorityOrder(store[y].priority)
    \/ /\ PriorityOrder(store[x].priority) = PriorityOrder(store[y].priority)
       /\ store[x].estimated_days < store[y].estimated_days

\* The sort key of task x is not greater than that of task y:
\* (priority_order, estimated_days) compared as Python tuples.
KeyLeq(store, x, y) ==
    \/ PriorityOrder(store[x].priority) < PriorityOrder(store[y].priority)
    \/ /\ PriorityOrder(store[x].priority) = PriorityOrder(store[y].priority)
       /\ store[x].estimated_days <= store[y].estimated_days

\* x inserted into the sorted list s after every element whose key is not
\* greater (list.sort is stable).
RECURSIVE InsertSorted(_, _, _)
InsertSorted(store, s, x) ==
    IF s = <<>> THEN <<x>>
    ELSE IF KeyLeq(store, Head(s), x)
         THEN <<Head(s)>> \o InsertSorted(store, Tail(s), x)
         ELSE <<x>> \o s

RECURSIVE SortByKey(_, _)
SortByKey(store, s) ==
    IF s = <<>> THEN <<>>
    ELSE InsertSorted(store, SortByKey(store, SubSeq(s, 1, Len(s) - 1)), s[Len(s)])

\* IsReady without the test for open blockers.
IsReadyIgnoringBlockers(store, bs, task_id) ==
    /\ store[task_id].status = NOT_STARTED
    /\ \A i \in 1..Len(store[task_id].dependencies) :
          LET dep_id == store[task_id].dependencies[i]
          IN  dep_id \in 1..Len(store) => store[dep_id].status = COMPLETED

\* The test get_ready_tasks applies to one task.
IsReady(store, bs, task_id) ==
    /\ store[task_id].status = NOT_STARTED
    /\ \A i \in 1..Len(store[task_id].dependencies) :
          LET dep_id == store[task_id].dependencies[i]
          IN  dep_id \in 1..Len(store) => store[dep_id].status = COMPLETED
    /\ ActiveBlockers(bs, task_id) = {}

RECURSIVE ReadyFrom(_, _, _)
ReadyFrom(store, bs, i) ==
    IF i > Len(store) THEN <<>>
    ELSE (IF IsReady(store, bs, i) THEN <<i>> ELSE <<>>) \o ReadyFrom(store, bs, i + 1)

\* get_ready_tasks holding back a task that names a dependency not in the
\* store.
GetReadyTasksKnownDependencies(store, bs) ==
    LET Known(x) == \A i \in 1..Len(store[x].dependencies) :
                        store[x].dependencies[i] \in 1..Len(store)
    IN  SortByKey(store, SelectSeq(ReadyFrom(store, bs, 1), Known))

GetReadyTasks(store, bs) == SortByKey(store, ReadyFrom(store, bs, 1))

ready_tasks == GetReadyTasks(tasks, blockers)

(* ---------------------------- blocked tasks --------------------------- *)

\* active_blockers of get_blocked_tasks without `and b.resolved_date is None`.
AllDescriptions(bs, task_id) ==
    LET Mine(b) == b.task_id = task_id
        mine == SelectSeq(bs, Mine)
    IN  [i \in 1..Len(mine) |-> mine[i].description]

\* [b.description for b in self.blockers.values()
\*      if b.task_id == task_id and b.resolved_date is None]
ActiveDescriptions(bs, task_id) ==
    LET Open(b) == b.task_id = task_id /\ b.resolved_date = None
        open == SelectSeq(bs, Open)
    IN  [i \in 1..Len(open) |-> open[i].description]

RECURSIVE BlockedFrom(_, _, _)
BlockedFrom(store, bs, i) ==
    IF i > Len(store) THEN <<>>
    ELSE (IF store[i].status = BLOCKED
          THEN <<[task_id |-> i, active_blockers |-> ActiveDescriptions(bs, i)]>>
          ELSE <<>>)
         \o BlockedFrom(store, bs, i + 1)

\* get_blocked_tasks: (task_id, active_blockers) pairs in creation order.
GetBlockedTasks(store, bs) == BlockedFrom(store, bs, 1)

(* --------------------------- agent workload -------------------------- *)

\* Number of the agent's tasks with the status.
StatusCount(store, agent, status) ==
    Cardinality({i \in 1..Len(store) :
                    store[i].agent = agent /\ store[i].status = status})

\* workload[agent]["total_days"]
RECURSIVE TotalDays(_, _, _)
TotalDays(store, agent, i) ==
    IF i > Len(store) THEN 0
    ELSE (IF store[i].agent = agent THEN store[i].estimated_days ELSE 0)
         + TotalDays(store, agent, i + 1)

\* workload[agent]["remaining_days"], in hundredths of a day:
\* estimated_days * (1 - completion_percentage / 100) is
\* estimated_days * (100 - completion_percentage) hundredths.
RECURSIVE RemainingDays(_, _, _)
RemainingDays(store, agent, i) ==
    IF i > Len(store) THEN 0
    ELSE (IF /\ store[i].agent = agent
             /\ store[i].status \in {NOT_STARTED, IN_PROGRESS, BLOCKED}
          THEN store[i].estimated_days * (100 - store[i].completion_percentage)
          ELSE 0)
         + RemainingDays(store, agent, i + 1)

\* get_agent_workload: the dict of an agent has no key "on_hold", so
\* `workload[task.agent][task.status.value] += 1` raises KeyError on a task
\* that is ON_HOLD; `raised` is "" when the call returns.
GetAgentWorkload(store) ==
    IF \E i \in 1..Len(store) : store[i].status = ON_HOLD
    THEN [raised |-> "KeyError"]
    ELSE [raised |-> "",
          workload |->
            [agent \in {store[i].agent : i \in 1..Len(store)} |->
                [not_started |-> StatusCount(store, agent, NOT_STARTED),
                 in_progress |-> StatusCount(store, agent, IN_PROGRESS),
                 blocked |-> StatusCount(store, agent, BLOCKED),
                 completed |-> StatusCount(store, agent, COMPLETED),
                 total_days |-> TotalDays(store, agent, 1),
                 remaining_days |-> RemainingDays(store, agent, 1)]]]

agent_workload == GetAgentWorkload(tasks)

(* --------------------------- critical path ---------------------------- *)

\* Relax with `predecessors[neighbor] = current` outside the
\* `if new_distance > distances[neighbor]` test.
RECURSIVE RelaxAlwaysRecords(_, _, _, _)
RelaxAlwaysRecords(store, st, current, ns) ==
    IF ns = <<>> THEN st
    ELSE
        LET neighbor == Head(ns)
            new_distance == st.distances[current] + store[current].estimated_days
            better == new_distance > st.distances[neighbor]
            deg == st.in_degree[neighbor] - 1
            st1 == [queue |-> IF deg = 0 THEN Append(st.queue, neighbor) ELSE st.queue,
                    in_degree |-> [st.in_degree EXCEPT ![neighbor] = deg],
                    distances |-> IF better
                                  THEN [st.distances EXCEPT ![neighbor] = new_distance]
                                  ELSE st.distances,
                    predecessors |-> [st.predecessors EXCEPT ![neighbor] = current],
                    popped |-> st.popped]
        IN  RelaxAlwaysRecords(store, st1, current, Tail(ns))

\* The inner loop `for neighbor in graph[current]` of calculate_critical_path,
\* over the remaining neighbours ns; st holds queue, in_degree, distances and
\* predecessors.
RECURSIVE Relax(_, _, _, _)
Relax(store, st, current, ns) ==
    IF ns = <<>> THEN st
    ELSE
        LET neighbor == Head(ns)
            new_distance == st.distances[current] + store[current].estimated_days
            better == new_distance > st.distances[neighbor]
            deg == st.in_degree[neighbor] - 1
            st1 == [queue |-> IF deg = 0 THEN Append(st.queue, neighbor) ELSE st.queue,
                    in_degree |-> [st.in_degree EXCEPT ![neighbor] = deg],
                    distances |-> IF better
                                  THEN [st.distances EXCEPT ![neighbor] = new_distance]
                                  ELSE st.distances,
                    predecessors |-> IF better
                                     THEN [st.predecessors EXCEPT ![neighbor] = current]
                                     ELSE st.predecessors,
                    popped |-> st.popped]
        IN  Relax(store, st1, current, Tail(ns))

\* The loop `while queue: current = queue.pop(0) ...`.  `popped` records the
\* order in which tasks were dequeued (not a variable of the code).
RECURSIVE Kahn(_, _)
Kahn(store, st) ==
    IF st.queue = <<>> THEN st
    ELSE
        LET current == Head(st.queue)
            st0 == [st EXCEPT !.queue = Tail(st.queue),
                              !.popped = Append(st.popped, current)]
        IN  Kahn(store, Relax(store, st0, current, store[current].blocks))

\* The initial queue holding every task from i on, whatever its in-degree.
ZeroDegreeEveryTask(store, i) ==
    [k \in 1..(Len(store) - i + 1) |-> i + k - 1]

\* [task_id for task_id, degree in in_degree.items() if degree == 0]
RECURSIVE ZeroDegree(_, _)
ZeroDegree(store, i) ==
    IF i > Len(store) THEN <<>>
    ELSE (IF Len(store[i].dependencies) = 0 THEN <<i>> ELSE <<>>)
         \o ZeroDegree(store, i + 1)

\* State of the topological pass when the queue is empty.
TopoPass(store) ==
    Kahn(store,
         [queue |-> ZeroDegree(store, 1),
          in_degree |-> [t \in 1..Len(store) |-> Len(store[t].dependencies)],
          distances |-> [t \in 1..Len(store) |-> 0],
          predecessors |-> [t \in 1..Len(store) |-> NoTask],
          popped |-> <<>>])

\* max(distances.keys(), key=lambda x: distances[x]): the first key, in dict
\* order, whose distance is maximal.
EndTask(store, distances) ==
    CHOOSE t \in 1..Len(store) :
        /\ \A u \in 1..Len(store) : distances[u] <= distances[t]
        /\ \A u \in 1..(t - 1) : distances[u] < distances[t]

\* `while current is not None: path.append(current); current = predecessors[current]`
\* followed by path.reverse(): the walk of at most `fuel` tasks, start first.
RECURSIVE Walk(_, _, _)
Walk(predecessors, current, fuel) ==
    IF current = NoTask \/ fuel = 0 THEN <<>>
    ELSE Append(Walk(predecessors, predecessors[current], fuel - 1), current)

\* The walk from `current` reaches None within `fuel` tasks.  A walk that has
\* appended every task once and is not at None is on a cycle of predecessors
\* and never leaves the loop.
RECURSIVE WalkEnds(_, _, _)
WalkEnds(predecessors, current, fuel) ==
    \/ current = NoTask
    \/ fuel > 0 /\ WalkEnds(predecessors, predecessors[current], fuel - 1)

\* "Assess risk level" with <= for < in the second test.
RiskLevelSevenIsMedium(total_float) ==
    IF total_float < 0 THEN "HIGH - Project behind schedule"
    ELSE IF total_float <= 7 THEN "MEDIUM - Limited schedule buffer"
    ELSE "LOW - Adequate schedule buffer"

\* "Assess risk level" in calculate_critical_path.
RiskLevel(total_float) ==
    IF total_float < 0 THEN "HIGH - Project behind schedule"
    ELSE IF total_float < 7 THEN "MEDIUM - Limited schedule buffer"
    ELSE "LOW - Adequate schedule buffer"

\* Bottlenecks: the tasks of the path that are CRITICAL or block more than two.
RECURSIVE Bottlenecks(_, _)
Bottlenecks(store, path) ==
    IF path = <<>> THEN <<>>
    ELSE (IF \/ store[Head(path)].priority = CRITICAL
             \/ Len(store[Head(path)].blocks) > 2
          THEN <<Head(path)>> ELSE <<>>)
         \o Bottlenecks(store, Tail(path))

\* calculate_critical_path on a store: `raised` is "" when it returns.  On
\* the empty store max() raises ValueError; "loops" stands for a
\* reconstruction loop that never ends.
CalculateCriticalPath(store) ==
    IF Len(store) = 0 THEN [raised |-> "ValueError"]
    ELSE
        LET st == TopoPass(store)
            end_task == EndTask(store, st.distances)
            total_duration == st.distances[end_task] + store[end_task].estimated_days
            path == Walk(st.predecessors, end_task, Len(store))
            total_float == ProjectDays - total_duration
        IN  IF ~WalkEnds(st.predecessors, end_task, Len(store))
            THEN [raised |-> "loops"]
            ELSE
            [raised |-> "",
             path |-> path,
             total_duration |-> total_duration,
             total_float |-> total_float,
             risk_level |-> RiskLevel(total_float),
             bottlenecks |-> Bottlenecks(store, path)]

critical_path == CalculateCriticalPath(tasks)

\* A traversal that takes each neighbour off graph[current]: graph[task_id]
\* is task.blocks itself, not a copy, so the blocks lists end up empty.
CriticalPathStoreConsumed(store) ==
    [t \in 1..Len(store) |-> [store[t] EXCEPT !.blocks = <<>>]]

\* The task store after calculate_critical_path: the method reads
\* task.blocks, task.dependencies, estimated_days and priority and assigns
\* to its own locals only.
CriticalPathStore(store) == store

\* A call of calculate_critical_path; last.id counts the calls made in a
\* row and `calls` bounds them.
CallCriticalPath(calls) ==
    LET n == IF last.op = "calculate_critical_path" THEN last.id + 1 ELSE 1
    IN  /\ n <= calls
        /\ tasks' = CriticalPathStore(tasks)
        /\ last' = [op |-> "calculate_critical_path", id |-> n,
                    result |-> CalculateCriticalPath(tasks)]
        /\ UNCHANGED <<blockers, now>>

(* ------------------------ dependency violations ----------------------- *)

MISSING_DEPENDENCY == "missing_dependency"

CIRCULAR_DEPENDENCY == "circular_dependency"

PREMATURE_START == "premature_start"

\* The violations get_dependency_violations appends for task_id while it
\* goes through the dependency entries deps; dep_id stands for the id the
\* "issue" text carries.
RECURSIVE ViolationsOf(_, _, _)
ViolationsOf(store, task_id, deps) ==
    IF deps = <<>> THEN <<>>
    ELSE
        LET dep_id == Head(deps)
            viol(type) == [task_id |-> task_id, dep_id |-> dep_id, type |-> type]
            found ==
                IF dep_id \notin 1..Len(store)
                THEN <<viol(MISSING_DEPENDENCY)>>
                ELSE (IF InList(task_id, store[dep_id].dependencies)
                      THEN <<viol(CIRCULAR_DEPENDENCY)>> ELSE <<>>)
                     \o (IF /\ store[task_id].status = IN_PROGRESS
                            /\ store[dep_id].status /= COMPLETED
                         THEN <<viol(PREMATURE_START)>> ELSE <<>>)
        IN  found \o ViolationsOf(store, task_id, Tail(deps))

RECURSIVE ViolationsFrom(_, _)
ViolationsFrom(store, i) ==
    IF i > Len(store) THEN <<>>
    ELSE ViolationsOf(store, i, store[i].dependencies) \o ViolationsFrom(store, i + 1)

\* get_dependency_violations with premature_start reported only while the
\* dependency is NOT_STARTED.
GetDependencyViolationsUnstartedOnly(store) ==
    LET Kept(v) == v.type = PREMATURE_START => store[v.dep_id].status = NOT_STARTED
    IN  SelectSeq(ViolationsFrom(store, 1), Kept)

GetDependencyViolations(store) == ViolationsFrom(store, 1)

dependency_violations == GetDependencyViolations(tasks)

(* ---------------------------- project health ------------------------- *)

Min(a, b) == IF a < b THEN a ELSE b

Max(a, b) == IF a > b THEN a ELSE b

\* The test of get_overdue_tasks without the test of the status.
IsOverdueAnyStatus(task, at) ==
    /\ task.start_date /= None
    /\ at - task.start_date[1] > task.estimated_days

\* The test get_overdue_tasks applies to one task; `at` is datetime.now() in
\* whole days.
IsOverdue(task, at) ==
    /\ task.status \in {IN_PROGRESS, BLOCKED}
    /\ task.start_date /= None
    /\ at - task.start_date[1] > task.estimated_days

RECURSIVE OverdueFrom(_, _, _)
OverdueFrom(store, at, i) ==
    IF i > Len(store) THEN <<>>
    ELSE (IF IsOverdue(store[i], at) THEN <<i>> ELSE <<>>) \o OverdueFrom(store, at, i + 1)

GetOverdueTasks(store, at) == OverdueFrom(store, at, 1)

\* escalated_blockers without `and b.resolved_date is None`.
EscalatedBlockersResolvedToo(bs) ==
    Cardinality({b \in 1..Len(bs) : bs[b].escalated})

\* escalated_blockers in get_project_health.
EscalatedBlockers(bs) ==
    Cardinality({b \in 1..Len(bs) : bs[b].escalated /\ bs[b].resolved_date = None})

\* The health score with each penalty added instead of subtracted.
HealthScoreAdding(blocked_tasks, overdue_tasks, escalated_blockers, total_float) ==
    LET s1 == 100 + Min(30, blocked_tasks * 5)
        s2 == s1 + Min(20, overdue_tasks * 3)
        s3 == s2 + Min(25, escalated_blockers * 10)
        s4 == IF total_float < 0 THEN s3 + 20
              ELSE IF total_float < 7 THEN s3 + 10
              ELSE s3
    IN  Max(0, s4)

\* "Health score calculation" in get_project_health.
HealthScore(blocked_tasks, overdue_tasks, escalated_blockers, total_float) ==
    LET s1 == 100 - Min(30, blocked_tasks * 5)
        s2 == s1 - Min(20, overdue_tasks * 3)
        s3 == s2 - Min(25, escalated_blockers * 10)
        s4 == IF total_float < 0 THEN s3 - 20
              ELSE IF total_float < 7 THEN s3 - 10
              ELSE s3
    IN  Max(0, s4)

\* get_project_health at time `at`: `raised` is "" when it returns, and what
\* calculate_critical_path raised otherwise.
GetProjectHealth(store, bs, at) ==
    LET total_tasks == Len(store)
        completed_tasks ==
            Cardinality({t \in 1..Len(store) : store[t].status = COMPLETED})
        blocked_tasks ==
            Cardinality({t \in 1..Len(store) : store[t].status = BLOCKED})
        overdue_tasks == Len(GetOverdueTasks(store, at))
        active_blockers ==
            Cardinality({b \in 1..Len(bs) : bs[b].resolved_date = None})
        escalated_blockers == EscalatedBlockers(bs)
        cp == CalculateCriticalPath(store)
    IN  IF cp.raised /= "" THEN [raised |-> cp.raised]
        ELSE
        [raised |-> "",
         total_tasks |-> total_tasks,
         completed_tasks |-> completed_tasks,
         blocked_tasks |-> blocked_tasks,
         overdue_tasks |-> overdue_tasks,
         active_blockers |-> active_blockers,
         escalated_blockers |-> escalated_blockers,
         schedule_float_days |-> cp.total_float,
         risk_level |-> cp.risk_level,
         health_score |-> HealthScore(blocked_tasks, overdue_tasks,
                                      escalated_blockers, cp.total_float)]

project_health == GetProjectHealth(tasks, blockers, now)

(* --------- the mutating calls, statement by statement ------------------ *)
(*                                                                         *)
(* The methods hold no lock.  Each action below is one store write of a    *)
(* method, in the order of the source; between two of them the stores are  *)
(* what another caller of the same tracker finds.                          *)

Running == "running"

InCall(op) == pending /= None /\ pending[1].op = op

\* add_task up to `self.tasks[task_id] = task`.
AddTaskInsert(agent, estimated_days, dependencies, priority) ==
    LET task_id == Len(tasks) + 1
    IN  /\ pending = None
        /\ tasks' = Append(tasks, NewTask(agent, estimated_days, dependencies,
                                          priority))
        /\ pending' = Some([op |-> "add_task", id |-> task_id,
                            rest |-> dependencies])
        /\ last' = [op |-> "add_task", id |-> task_id, result |-> Running]
        /\ UNCHANGED <<blockers, now>>

\* One pass of `for dep_id in task.dependencies: if dep_id in self.tasks:
\*      self.tasks[dep_id].blocks.append(task_id)`.
AddTaskLink ==
    /\ InCall("add_task")
    /\ pending[1].rest /= <<>>
    /\ LET dep_id == Head(pending[1].rest)
       IN  tasks' = IF dep_id \in TaskKeys
                    THEN [tasks EXCEPT ![dep_id].blocks = Append(@, pending[1].id)]
                    ELSE tasks
    /\ pending' = Some([pending[1] EXCEPT !.rest = Tail(@)])
    /\ last' = [op |-> "add_task", id |-> pending[1].id, result |-> Running]
    /\ UNCHANGED <<blockers, now>>

\* `return task_id`.
AddTaskReturn ==
    /\ InCall("add_task")
    /\ pending[1].rest = <<>>
    /\ pending' = None
    /\ last' = [op |-> "add_task", id |-> pending[1].id, result |-> Returned]
    /\ UNCHANGED <<tasks, blockers, now>>

\* add_blocker up to `self.blockers[blocker_id] = blocker`.
AddBlockerInsert(task_id, blocker_type, description) ==
    /\ pending = None
    /\ IF task_id \notin TaskKeys
       THEN /\ last' = [op |-> "add_blocker", id |-> task_id, result |-> NotFound]
            /\ UNCHANGED <<tasks, blockers, now, pending>>
       ELSE /\ blockers' = Append(blockers,
                                  NewBlocker(task_id, blocker_type, description, now))
            /\ pending' = Some([op |-> "add_blocker", id |-> task_id, rest |-> <<>>])
            /\ last' = [op |-> "add_blocker", id |-> task_id, result |-> Running]
            /\ UNCHANGED <<tasks, now>>

\* The rest of add_blocker: the status test and assignment, and the return.
AddBlockerBlock ==
    /\ InCall("add_blocker")
    /\ tasks' = [tasks EXCEPT ![pending[1].id].status = BlockedStatus(@)]
    /\ pending' = None
    /\ last' = [op |-> "add_blocker", id |-> pending[1].id, result |-> Returned]
    /\ UNCHANGED <<blockers, now>>

\* resolve_blocker up to `blocker.resolution_notes = resolution_notes`.
ResolveBlockerMark(blocker_id, resolution_notes) ==
    /\ pending = None
    /\ IF blocker_id \notin BlockerKeys
       THEN /\ last' = [op |-> "resolve_blocker", id |-> blocker_id,
                        result |-> NotFound]
            /\ UNCHANGED <<tasks, blockers, now, pending>>
       ELSE /\ blockers' = [blockers EXCEPT ![blocker_id] =
                              ResolvedBlocker(@, resolution_notes, now)]
            /\ pending' = Some([op |-> "resolve_blocker", id |-> blocker_id,
                                rest |-> <<>>])
            /\ last' = [op |-> "resolve_blocker", id |-> blocker_id,
                        result |-> Running]
            /\ UNCHANGED <<tasks, now>>

\* The rest of resolve_blocker: active_blockers and the status assignment.
ResolveBlockerUnblock ==
    /\ InCall("resolve_blocker")
    /\ LET task_id == blockers[pending[1].id].task_id
       IN  tasks' = [tasks EXCEPT ![task_id].status =
                        UnblockedStatus(@, ActiveBlockers(blockers, task_id))]
    /\ pending' = None
    /\ last' = [op |-> "resolve_blocker", id |-> pending[1].id, result |-> Returned]
    /\ UNCHANGED <<blockers, now>>

\* Another caller runs a read (calculate_critical_path, get_ready_tasks,
\* get_blocked_tasks, get_dependency_violations, get_project_health) on the
\* stores as they are.
Read ==
    /\ last' = [op |-> "read", id |-> 0, result |-> Returned]
    /\ UNCHANGED <<tasks, blockers, now, pending>>

(* ------------------------------- files -------------------------------- *)

\* save_to_file: open(filename, 'w') creates or empties the file, then
\* json.dumps(data, f, indent=2, default=str) is called with two positional
\* arguments and raises TypeError; nothing is written.
SaveToFile ==
    /\ file' = EmptyFile
    /\ last' = [op |-> "save_to_file", id |-> 0, result |-> "TypeError"]
    /\ UNCHANGED <<tasks, blockers, now>>

\* The loop `self.tasks[task_id] = Task(**task_data)` (and the same for
\* blockers): entries of the document replace the entries that have their
\* ids and the other entries stay.
LoadedOver(store, data) ==
    [i \in 1..Max(Len(store), Len(data)) |->
        IF i <= Len(data) THEN data[i] ELSE store[i]]

\* load_from_file: open() raises FileNotFoundError when the file does not
\* exist, json.load raises JSONDecodeError on an empty file.
LoadFromFile ==
    IF file.kind = "absent"
    THEN /\ last' = [op |-> "load_from_file", id |-> 0,
                     result |-> "FileNotFoundError"]
         /\ UNCHANGED <<tasks, blockers, now, file>>
    ELSE IF file.kind = "empty"
    THEN /\ last' = [op |-> "load_from_file", id |-> 0,
                     result |-> "JSONDecodeError"]
         /\ UNCHANGED <<tasks, blockers, now, file>>
    ELSE /\ tasks' = LoadedOver(tasks, file.tasks)
         /\ blockers' = LoadedOver(blockers, file.blockers)
         /\ last' = [op |-> "load_from_file", id |-> 0, result |-> Returned]
         /\ UNCHANGED <<now, file>>

\* DependencyTracker(): a tracker with empty stores.
NewTracker ==
    /\ tasks' = <<>>
    /\ blockers' = <<>>
    /\ last' = [op |-> "init", id |-> 0, result |-> Returned]
    /\ UNCHANGED <<now, file>>

\* What an empty tracker holds after load_from_file on file f.
Loaded(f) ==
    IF f.kind = "absent" THEN [raised |-> "FileNotFoundError"]
    ELSE IF f.kind = "empty" THEN [raised |-> "JSONDecodeError"]
    ELSE [raised |-> "",
          tasks |-> LoadedOver(<<>>, f.tasks),
          blockers |-> LoadedOver(<<>>, f.blockers)]

(* --------------------------- specifications --------------------------- *)

\* DependencyTracker.__init__.
Init ==
    /\ tasks = <<>>
    /\ blockers = <<>>
    /\ now = 0
    /\ last = [op |-> "init", id |-> 0, result |-> Returned]
    /\ steps = 0
    /\ file = NoFile
    /\ pending = None
    /\ probe = None

\* Ids a dependency list may name in SpecGraph.
GraphIds == 1..MaxGraphTasks

\* estimated_days arguments in SpecGraph.
GraphDays == {0, 1, 2}

\* Dependency lists of at most two entries, duplicates included.  add_task
\* appends the new id to the blocks list of each named task, so the store
\* after <<b, a>> differs from the store after <<a, b>> in the order of the
\* new task's own dependency list only; the lists are drawn with a <= b.
GraphDeps ==
    {<<>>} \cup {<<a>> : a \in GraphIds}
           \cup {<<p[1], p[2]>> : p \in {q \in GraphIds \X GraphIds : q[1] <= q[2]}}

RECURSIVE EdgeCount(_)
EdgeCount(store) ==
    IF store = <<>> THEN 0
    ELSE Len(Head(store).dependencies) + EdgeCount(Tail(store))

GraphAddTask ==
    \E d \in GraphDays, deps \in GraphDeps :
        /\ Len(tasks) < MaxGraphTasks
        /\ EdgeCount(tasks) + Len(deps) <= MaxGraphEdges
        /\ AddTask("a1", d, deps, MEDIUM)
        /\ UNCHANGED <<steps, file, probe, pending>>

\* At most two calls in a row.
GraphCriticalPath ==
    CallCriticalPath(2) /\ UNCHANGED <<steps, file, probe, pending>>

NextGraph == GraphAddTask \/ GraphCriticalPath

SpecGraph == Init /\ [][NextGraph]_vars

\* SpecCycles: the same graphs, built and not read; the claims on the
\* topological pass are stated on the pass over the store of each state.
NextCycles == GraphAddTask

SpecCycles == Init /\ [][NextCycles]_vars

\* Arguments of the calls in Spec.
TaskIds == 1..MaxTasks

BlockerIds == 1..MaxBlockers

DepsIn == {<<>>} \cup {<<a>> : a \in TaskIds}

StatusIn == TaskStatus

NotesIn == {"n1", "n2"}

\* description arguments: the k-th blocker gets the k-th.
DescriptionIn == <<"d1", "d2", "d3">>

\* One more call is made.
Step == steps < MaxSteps /\ steps' = steps + 1 /\ UNCHANGED <<file, probe, pending>>

DoAddTask ==
    \E deps \in DepsIn :
        /\ Len(tasks) < MaxTasks
        /\ AddTask("a1", 1, deps, MEDIUM)
        /\ Step

DoUpdateStatus ==
    \E t \in TaskIds, s \in StatusIn : UpdateStatus(t, s, None, "") /\ Step

DoAddBlocker ==
    \E t \in TaskIds :
        /\ Len(blockers) < MaxBlockers
        /\ AddBlocker(t, "technical", DescriptionIn[Len(blockers) + 1])
        /\ Step

DoResolveBlocker ==
    \E b \in BlockerIds, n \in NotesIn : ResolveBlocker(b, n) /\ Step

DoEscalateBlocker ==
    \E b \in BlockerIds : EscalateBlocker(b) /\ Step

Next ==
    \/ DoAddTask
    \/ DoUpdateStatus
    \/ DoAddBlocker
    \/ DoResolveBlocker
    \/ DoEscalateBlocker

Spec == Init /\ [][Next]_vars

(* SpecStatus: the lifecycle calls with completion percentages, among     *)
(* them values outside 0..100.                                            *)

PercentIn == {None, Some(-5), Some(50), Some(150)}

StatusStep ==
    steps < StatusSteps /\ steps' = steps + 1 /\ UNCHANGED <<file, probe, pending>>

StatusAddTask ==
    /\ Len(tasks) < StatusTasks
    /\ AddTask("a1", 1, <<>>, MEDIUM)
    /\ StatusStep

StatusUpdateStatus ==
    \E t \in 1..StatusTasks, s \in TaskStatus, p \in PercentIn :
        UpdateStatus(t, s, p, "") /\ StatusStep

StatusAddBlocker ==
    \E t \in 1..StatusTasks :
        /\ Len(blockers) < StatusBlockers
        /\ AddBlocker(t, "technical", "d1")
        /\ StatusStep

StatusResolveBlocker ==
    \E b \in 1..StatusBlockers : ResolveBlocker(b, "n1") /\ StatusStep

NextStatus ==
    \/ StatusAddTask
    \/ StatusUpdateStatus
    \/ StatusAddBlocker
    \/ StatusResolveBlocker

SpecStatus == Init /\ [][NextStatus]_vars

(* SpecTime: the lifecycle calls while days pass.  The clock counts whole  *)
(* days since the tracker was constructed.                                 *)

\* estimated_days arguments: a short task, one that leaves a float under 7
\* and one that leaves a float under 0.
TimeDays == {1, 106, 113}

TimeStep ==
    steps < TimeSteps /\ steps' = steps + 1 /\ UNCHANGED <<file, probe, pending>>

\* status arguments: the two that set dates.
TimeStatusIn == {IN_PROGRESS, COMPLETED}

TimeAddTask ==
    \E d \in TimeDays :
        /\ Len(tasks) < TimeTasks
        /\ AddTask("a1", d, <<>>, MEDIUM)
        /\ TimeStep

TimeUpdateStatus ==
    \E t \in 1..TimeTasks, s \in TimeStatusIn :
        UpdateStatus(t, s, None, "") /\ TimeStep

TimeAddBlocker ==
    \E t \in 1..TimeTasks :
        /\ Len(blockers) < TimeBlockers
        /\ AddBlocker(t, "technical", "d1")
        /\ TimeStep

TimeResolveBlocker ==
    \E b \in 1..TimeBlockers : ResolveBlocker(b, "n1") /\ TimeStep

TimeEscalateBlocker ==
    \E b \in 1..TimeBlockers : EscalateBlocker(b) /\ TimeStep

\* A day passes.
Tick ==
    /\ now < MaxTime
    /\ now' = now + 1
    /\ last' = [op |-> "tick", id |-> 0, result |-> Returned]
    /\ UNCHANGED <<tasks, blockers, steps, file, probe, pending>>

NextTime ==
    \/ TimeAddTask
    \/ TimeUpdateStatus
    \/ TimeAddBlocker
    \/ TimeResolveBlocker
    \/ TimeEscalateBlocker
    \/ Tick

SpecTime == Init /\ [][NextTime]_vars

(* SpecDates: few tasks, more calls; a task is started, blocked, released *)
(* and started again while days pass.                                     *)

\* status arguments: NOT_STARTED is left to resolve_blocker.
DatesStatusIn == TaskStatus \ {NOT_STARTED}

DatesStep ==
    steps < DatesSteps /\ steps' = steps + 1 /\ UNCHANGED <<file, probe, pending>>

DatesAddTask ==
    /\ Len(tasks) < DatesTasks
    /\ AddTask("a1", 1, <<>>, MEDIUM)
    /\ DatesStep

DatesUpdateStatus ==
    \E t \in 1..DatesTasks, s \in DatesStatusIn :
        UpdateStatus(t, s, None, "") /\ DatesStep

DatesAddBlocker ==
    \E t \in 1..DatesTasks :
        /\ Len(blockers) < DatesBlockers
        /\ AddBlocker(t, "technical", "d1")
        /\ DatesStep

DatesResolveBlocker ==
    \E b \in 1..DatesBlockers : ResolveBlocker(b, "n1") /\ DatesStep

NextDates ==
    \/ DatesAddTask
    \/ DatesUpdateStatus
    \/ DatesAddBlocker
    \/ DatesResolveBlocker
    \/ Tick

SpecDates == Init /\ [][NextDates]_vars

(* SpecConcurrent: one caller mutates, statement by statement, while      *)
(* another reads.                                                         *)

ConcBegin == steps < ConcSteps /\ steps' = steps + 1 /\ UNCHANGED <<file, probe>>

\* The dependency lists name tasks that are in the store.
ConcAddTaskInsert ==
    \E deps \in {<<>>} \cup {<<a>> : a \in TaskKeys} :
        /\ Len(tasks) < ConcTasks
        /\ AddTaskInsert("a1", 1, deps, MEDIUM)
        /\ ConcBegin

ConcAddTaskLink == AddTaskLink /\ UNCHANGED <<steps, file, probe>>

ConcAddTaskReturn == AddTaskReturn /\ UNCHANGED <<steps, file, probe>>

ConcAddBlockerInsert ==
    \E t \in 1..ConcTasks :
        /\ Len(blockers) < ConcBlockers
        /\ AddBlockerInsert(t, "technical", "d1")
        /\ ConcBegin

ConcAddBlockerBlock == AddBlockerBlock /\ UNCHANGED <<steps, file, probe>>

ConcResolveBlockerMark ==
    \E b \in 1..ConcBlockers : ResolveBlockerMark(b, "n1") /\ ConcBegin

ConcResolveBlockerUnblock ==
    ResolveBlockerUnblock /\ UNCHANGED <<steps, file, probe>>

ConcUpdateStatus ==
    \E t \in 1..ConcTasks, s \in {IN_PROGRESS, COMPLETED} :
        /\ pending = None
        /\ UpdateStatus(t, s, None, "")
        /\ ConcBegin
        /\ UNCHANGED pending

ConcRead == last.op /= "read" /\ Read /\ UNCHANGED <<steps, file, probe>>

NextConcurrent ==
    \/ ConcAddTaskInsert
    \/ ConcAddTaskLink
    \/ ConcAddTaskReturn
    \/ ConcAddBlockerInsert
    \/ ConcAddBlockerBlock
    \/ ConcResolveBlockerMark
    \/ ConcResolveBlockerUnblock
    \/ ConcUpdateStatus
    \/ ConcRead

SpecConcurrent == Init /\ [][NextConcurrent]_vars

(* SpecFile: stores are built, saved, and loaded by a new tracker.        *)

FileStep ==
    steps < FileSteps /\ steps' = steps + 1 /\ UNCHANGED <<probe, pending>>

FileAddTask ==
    \E deps \in {<<>>, <<1>>} :
        /\ Len(tasks) < FileTasks
        /\ AddTask("a1", 1, deps, MEDIUM)
        /\ FileStep
        /\ UNCHANGED file

FileUpdateStatus ==
    \E t \in 1..FileTasks, s \in {IN_PROGRESS, COMPLETED} :
        UpdateStatus(t, s, None, "") /\ FileStep /\ UNCHANGED file

FileAddBlocker ==
    \E t \in 1..FileTasks :
        /\ Len(blockers) < FileBlockers
        /\ AddBlocker(t, "technical", "d1")
        /\ FileStep
        /\ UNCHANGED file

FileResolveBlocker ==
    \E b \in 1..FileBlockers :
        ResolveBlocker(b, "n1") /\ FileStep /\ UNCHANGED file

FileSave == SaveToFile /\ FileStep

FileLoad == LoadFromFile /\ FileStep

FileNewTracker == NewTracker /\ FileStep

NextFile ==
    \/ FileAddTask
    \/ FileUpdateStatus
    \/ FileAddBlocker
    \/ FileResolveBlocker
    \/ FileSave
    \/ FileLoad
    \/ FileNewTracker

SpecFile == Init /\ [][NextFile]_vars

(* SpecScore: the health-score arithmetic as a function of its four       *)
(* inputs, beyond the counts the small stores above can reach.            *)

\* critical_path.total_float arguments, on both sides of 0 and of 7.
FloatIn == {-1, 0, 6, 7, 112}

CountIn == 0..MaxCount

InitScore ==
    /\ tasks = <<>>
    /\ blockers = <<>>
    /\ now = 0
    /\ last = [op |-> "init", id |-> 0, result |-> Returned]
    /\ steps = 0
    /\ file = NoFile
    /\ pending = None
    /\ probe \in [blocked_tasks : CountIn, overdue_tasks : CountIn,
                  escalated_blockers : CountIn, total_float : FloatIn,
                  health_score : {None}]

Scored(p) ==
    [p EXCEPT !.health_score =
        Some(HealthScore(p.blocked_tasks, p.overdue_tasks,
                         p.escalated_blockers, p.total_float))]

\* The score of the drawn inputs is computed.
ApplyHealthScore ==
    /\ probe.health_score = None
    /\ probe' = Scored(probe)
    /\ last' = [op |-> "health_score", id |-> 0, result |-> Returned]
    /\ UNCHANGED <<tasks, blockers, now, steps, file, pending>>

\* One of the three counts grows by one, the other inputs stay, and the
\* score is computed again.
RaiseCount ==
    /\ probe.health_score /= None
    /\ \E p \in {[probe EXCEPT !.blocked_tasks = @ + 1],
                  [probe EXCEPT !.overdue_tasks = @ + 1],
                  [probe EXCEPT !.escalated_blockers = @ + 1]} :
          /\ p.blocked_tasks \in CountIn
          /\ p.overdue_tasks \in CountIn
          /\ p.escalated_blockers \in CountIn
          /\ probe' = Scored(p)
    /\ last' = [op |-> "raise_count", id |-> 0, result |-> Returned]
    /\ UNCHANGED <<tasks, blockers, now, steps, file, pending>>

NextScore == ApplyHealthScore \/ RaiseCount

SpecScore == InitScore /\ [][NextScore]_vars

(* SpecRisk: chains of tasks whose durations bring the float to either   *)
(* side of 0 and of 7, and calculate_critical_path on them.              *)

\* estimated_days arguments in SpecRisk: against the window of 112 days a
\* single task leaves a float of 111, 7, 6, 0 or -1.
RiskDays == {1, 105, 106, 112, 113}

RiskAddTask ==
    \E d \in RiskDays, deps \in {<<>>} \cup {<<a>> : a \in TaskKeys} :
        /\ Len(tasks) < RiskTasks
        /\ AddTask("a1", d, deps, MEDIUM)
        /\ UNCHANGED <<steps, file, probe, pending>>

RiskCriticalPath ==
    CallCriticalPath(1) /\ UNCHANGED <<steps, file, probe, pending>>

NextRisk == RiskAddTask \/ RiskCriticalPath

SpecRisk == Init /\ [][NextRisk]_vars

(* SpecSort: tasks of every priority and of two durations, some of them  *)
(* started, for the order of get_ready_tasks.                            *)

SortDays == {1, 2}

SortAddTask ==
    \E d \in SortDays, p \in Priority :
        /\ Len(tasks) < SortTasks
        /\ AddTask("a1", d, <<>>, p)
        /\ UNCHANGED <<steps, file, probe, pending>>

SortUpdateStatus ==
    \E t \in TaskKeys :
        /\ tasks[t].status = NOT_STARTED
        /\ UpdateStatus(t, IN_PROGRESS, None, "")
        /\ UNCHANGED <<steps, file, probe, pending>>

NextSort == SortAddTask \/ SortUpdateStatus

SpecSort == Init /\ [][NextSort]_vars

(* ------------------------ claims on the task graph -------------------- *)

\* B is in A.dependencies.
DependsOn(a, b) == InList(b, tasks[a].dependencies)

\* Sum of estimated_days over the tasks of a path.
RECURSIVE PathDays(_)
PathDays(path) ==
    IF path = <<>> THEN 0
    ELSE tasks[Head(path)].estimated_days + PathDays(Tail(path))

\* C1: for all existing tasks A and B, B is in A.dependencies if and only
\* if A is in B.blocks.
C1_BlocksInverse ==
    \A a \in TaskKeys, b \in TaskKeys :
        DependsOn(a, b) <=> InList(a, tasks[b].blocks)

\* C6: on a non-empty task store the totalDuration of the critical path
\* equals the sum of estimatedDays of the tasks on the returned path.
C6_DurationIsPathSum ==
    Len(tasks) > 0 =>
        /\ critical_path.raised = ""
        /\ critical_path.total_duration = PathDays(critical_path.path)

\* C6 witness: a returned path of three tasks whose duration is at least 4.
C6_Witness ==
    /\ Len(tasks) > 0
    /\ Len(critical_path.path) = 3
    /\ critical_path.total_duration >= 4

\* Every dependency entry names an existing task.
NoDangling ==
    \A a \in TaskKeys : \A i \in 1..Len(tasks[a].dependencies) :
        tasks[a].dependencies[i] \in TaskKeys

\* a reaches b through at most k dependency links (k >= 1).
RECURSIVE Reaches(_, _, _)
Reaches(a, b, k) ==
    /\ k > 0
    /\ \E c \in TaskKeys :
        /\ DependsOn(a, c)
        /\ (c = b \/ Reaches(c, b, k - 1))

Acyclic == \A a \in TaskKeys : ~Reaches(a, a, Len(tasks))

\* Greatest sum of estimated_days over the dependency chains that end in t
\* (on an acyclic graph; k bounds the depth).
RECURSIVE LongestChainTo(_, _)
LongestChainTo(t, k) ==
    LET preds == {c \in TaskKeys : DependsOn(t, c)}
        best == IF preds = {} \/ k = 0 THEN 0
                ELSE LET vals == {LongestChainTo(c, k - 1) : c \in preds}
                     IN  CHOOSE v \in vals : \A w \in vals : w <= v
    IN  tasks[t].estimated_days + best

\* C7: on an acyclic task graph without dangling dependencies no chain of
\* tasks linked by dependencies (a single task included) has a sum of
\* estimatedDays greater than the returned totalDuration.  Stated for stores
\* whose estimatedDays are all positive and whose blocks lists mirror the
\* dependency lists, so that a violation owes nothing to C1 or C10.
C7_NoLongerChain ==
    (/\ Len(tasks) > 0
     /\ NoDangling
     /\ Acyclic
     /\ C1_BlocksInverse
     /\ \A t \in TaskKeys : tasks[t].estimated_days >= 1)
    => \A t \in TaskKeys :
            LongestChainTo(t, Len(tasks)) <= critical_path.total_duration

\* C10: every task in the store has estimatedDays >= 1 (AddTask with
\* estimatedDays <= 0 adds no task).
C10_DaysPositive ==
    \A t \in TaskKeys : tasks[t].estimated_days >= 1

(* ---------------------- claims on the task lifecycle ------------------ *)

\* The step is a call of operation op that returned normally.
Called(op) == last'.op = op /\ last'.result = Returned

\* C2: once a task's status is COMPLETED no later call changes it.
C2_CompletedTerminal ==
    [][\A t \in TaskKeys :
          tasks[t].status = COMPLETED => tasks'[t].status = COMPLETED]_vars

\* C3: ResolveBlocker of an open blocker of a BLOCKED task sets the task to
\* NOT_STARTED when that blocker was the task's only open one, and leaves it
\* BLOCKED when another blocker of the task is still open.
C3_ResolveBlocker ==
    [][Called("resolve_blocker") =>
          LET b == last'.id
              t == blockers[b].task_id
          IN  (blockers[b].resolved_date = None /\ tasks[t].status = BLOCKED)
              => tasks'[t].status =
                    IF ActiveBlockers(blockers, t) = {b} THEN NOT_STARTED ELSE BLOCKED]_vars

\* C3 witness: a blocker has just been resolved while another blocker of the
\* same task is open, and the task is BLOCKED.
C3_Witness ==
    /\ last.op = "resolve_blocker"
    /\ last.result = Returned
    /\ blockers[last.id].resolved_date /= None
    /\ tasks[blockers[last.id].task_id].status = BLOCKED
    /\ ActiveBlockers(blockers, blockers[last.id].task_id) /= {}

\* C4: AddBlocker on an existing task appends an open blocker attached to
\* that task and sets the task BLOCKED, except that a COMPLETED task stays
\* COMPLETED.
C4_AddBlocker ==
    [][Called("add_blocker") =>
          LET t == last'.id
              b == Len(blockers')
          IN  /\ Len(blockers') = Len(blockers) + 1
              /\ SubSeq(blockers', 1, Len(blockers)) = blockers
              /\ blockers'[b].task_id = t
              /\ blockers'[b].resolved_date = None
              /\ tasks'[t].status =
                    IF tasks[t].status = COMPLETED THEN COMPLETED ELSE BLOCKED]_vars

\* C4 witness: a blocker has just been attached to a COMPLETED task.
C4_Witness ==
    /\ last.op = "add_blocker"
    /\ last.result = Returned
    /\ tasks[last.id].status = COMPLETED
    /\ blockers[Len(blockers)].task_id = last.id
    /\ blockers[Len(blockers)].resolved_date = None

\* Some existing dependency of t is not COMPLETED.
HasIncompleteDependency(t) ==
    \E d \in TaskKeys : DependsOn(t, d) /\ tasks[d].status /= COMPLETED

\* C5: GetReadyTasks returns no task with an existing dependency that is not
\* COMPLETED, none with an open blocker and none whose status is not
\* NOT_STARTED.
C5_ReadySound ==
    \A i \in 1..Len(ready_tasks) :
        LET t == ready_tasks[i]
        IN  /\ t \in TaskKeys
            /\ tasks[t].status = NOT_STARTED
            /\ ~HasIncompleteDependency(t)
            /\ ActiveBlockers(blockers, t) = {}

\* C5 witness: one NOT_STARTED task is returned while another NOT_STARTED
\* task is held back by an open blocker and nothing else.
C5_Witness ==
    /\ ready_tasks /= <<>>
    /\ \E t \in TaskKeys :
          /\ tasks[t].status = NOT_STARTED
          /\ ~HasIncompleteDependency(t)
          /\ ActiveBlockers(blockers, t) /= {}

\* C8: ResolveBlocker on a blocker whose resolved_date is set fails and
\* changes neither store.
C8_ResolveOnce ==
    [][(/\ last'.op = "resolve_blocker"
        /\ last'.id \in BlockerKeys
        /\ blockers[last'.id].resolved_date /= None)
       => /\ last'.result /= Returned
          /\ blockers' = blockers
          /\ tasks' = tasks]_vars

\* C9: UpdateStatus and AddBlocker with an unknown task id, ResolveBlocker
\* and Escalate with an unknown blocker id, fail with NotFound and leave the
\* task store and the blocker store as they were.
C9_NotFoundNoChange ==
    [][(\/ /\ last'.op \in {"update_task_status", "add_blocker"}
           /\ last'.id \notin TaskKeys
        \/ /\ last'.op \in {"resolve_blocker", "escalate_blocker"}
           /\ last'.id \notin BlockerKeys)
       => /\ last'.result = NotFound
          /\ tasks' = tasks
          /\ blockers' = blockers]_vars

\* C9 witness: AddBlocker has just failed with NotFound on a store that
\* holds a task and a blocker.
C9_Witness ==
    /\ last.op = "add_blocker"
    /\ last.result = NotFound
    /\ last.id \notin TaskKeys
    /\ Len(tasks) > 0
    /\ Len(blockers) > 0

(* --------------------- claims on the status of tasks ------------------ *)

\* C11: in every reachable state every task whose status is COMPLETED has
\* completion_percentage 100, whatever percentage the call that completed it
\* was given.
C11_CompletedIsHundred ==
    \A t \in TaskKeys :
        tasks[t].status = COMPLETED => tasks[t].completion_percentage = 100

\* C11 witness: a task that had been started has just been COMPLETED by
\* update_task_status and holds 100.
C11_Witness ==
    /\ last.op = "update_task_status"
    /\ last.result = Returned
    /\ tasks[last.id].status = COMPLETED
    /\ tasks[last.id].completion_percentage = 100
    /\ tasks[last.id].start_date /= None

\* C12: in every reachable state every task's completion_percentage lies in
\* 0..100 (a call with a percentage outside the range having been rejected).
C12_PercentageInRange ==
    \A t \in TaskKeys : tasks[t].completion_percentage \in 0..100

\* C13: every change of the status of a task that is not COMPLETED is a
\* transition of the state machine: NOT_STARTED to IN_PROGRESS, to COMPLETED,
\* to BLOCKED, BLOCKED to NOT_STARTED by the resolve_blocker call that leaves
\* the task without an open blocker, and to or from ON_HOLD.  (Changes of a
\* COMPLETED task are C2's.)
C13_OnlyMachineTransitions ==
    [][\A t \in TaskKeys :
          LET old == tasks[t].status
              new == tasks'[t].status
          IN  (old /= COMPLETED /\ new /= old) =>
                 \/ old = NOT_STARTED /\ new = IN_PROGRESS
                 \/ new = COMPLETED
                 \/ new = BLOCKED
                 \/ /\ old = BLOCKED
                    /\ new = NOT_STARTED
                    /\ last'.op = "resolve_blocker"
                    /\ ActiveBlockers(blockers', t) = {}
                 \/ old = ON_HOLD
                 \/ new = ON_HOLD]_vars

(* ----------------------- claims on the health score ------------------- *)

\* Tasks that are BLOCKED.
BlockedTaskCount == Cardinality({t \in TaskKeys : tasks[t].status = BLOCKED})

\* Tasks in progress or blocked whose days since start_date exceed
\* estimated_days.
OverdueTaskCount ==
    Cardinality({t \in TaskKeys :
                    /\ tasks[t].status \in {IN_PROGRESS, BLOCKED}
                    /\ tasks[t].start_date /= None
                    /\ now - tasks[t].start_date[1] > tasks[t].estimated_days})

\* Blockers that are escalated and not resolved.
EscalatedOpenBlockerCount ==
    Cardinality({b \in BlockerKeys :
                    blockers[b].escalated /\ blockers[b].resolved_date = None})

C15_ScoreMonotone ==
    [][(/\ probe.health_score /= None
        /\ probe'.health_score /= None
        /\ probe'.total_float = probe.total_float
        /\ probe'.blocked_tasks >= probe.blocked_tasks
        /\ probe'.overdue_tasks >= probe.overdue_tasks
        /\ probe'.escalated_blockers >= probe.escalated_blockers)
       => probe'.health_score[1] <= probe.health_score[1]]_vars

\* C15 witness: the blocked-task count has just grown from 5 to 6, where the
\* penalty reaches its cap of 30, and the score is lower than 100.
C15_Witness ==
    /\ last.op = "raise_count"
    /\ probe.blocked_tasks = 6
    /\ probe.overdue_tasks = 0
    /\ probe.escalated_blockers = 0
    /\ probe.total_float = 112
    /\ probe.health_score = Some(70)

(* ------------- claims on cycles and dangling dependencies ------------- *)

\* The topological pass of calculate_critical_path over the task store.
topo_pass == TopoPass(tasks)

\* The tasks the topological pass dequeued.
Processed == {topo_pass.popped[i] : i \in 1..Len(topo_pass.popped)}

OnPath(t) ==
    /\ critical_path.raised = ""
    /\ InList(t, critical_path.path)

\* C16: when the task graph has a dependency cycle, no task that the
\* topological pass never dequeued (its in-degree never reached zero) is on
\* the returned path, its end included.  Stated for stores without dangling
\* dependencies whose blocks lists mirror the dependency lists and whose
\* estimatedDays are positive, so that a violation owes nothing to C1 or C10.
C16_CycleTasksOffPath ==
    (/\ Len(tasks) > 0
     /\ ~Acyclic
     /\ NoDangling
     /\ C1_BlocksInverse
     /\ C10_DaysPositive)
    => \A t \in TaskKeys \ Processed : ~OnPath(t)

\* t names a dependency that is not in the store.
HasDangling(t) ==
    \E i \in 1..Len(tasks[t].dependencies) :
        tasks[t].dependencies[i] \notin TaskKeys

\* C17: a task whose dependency list names an id that was never created
\* yields a missing_dependency violation, is never dequeued by the
\* topological pass, is the recorded predecessor of no task, and is not on
\* the returned path.  Stated for stores whose estimatedDays are positive.
C17_DanglingExcluded ==
    \A t \in TaskKeys :
        (HasDangling(t) /\ C10_DaysPositive) =>
            /\ \E i \in 1..Len(dependency_violations) :
                  /\ dependency_violations[i].task_id = t
                  /\ dependency_violations[i].type = MISSING_DEPENDENCY
            /\ t \notin Processed
            /\ \A u \in TaskKeys : topo_pass.predecessors[u] /= t
            /\ ~OnPath(t)

\* The violation detector reports a violation of the type for task t.
Reported(violations, t, type) ==
    \E i \in 1..Len(violations) :
        violations[i].task_id = t /\ violations[i].type = type

\* C18: graph inconsistencies make no mutating call fail.  Every add_task
\* call returns and stores the task with the dependency list it was given,
\* dangling or cyclic; every update_task_status call on a task of the store
\* returns, and when it leaves the task IN_PROGRESS with a dependency that is
\* not COMPLETED the violation detector reports premature_start for it; a
\* dangling entry is reported as missing_dependency.
C18_InconsistencyTolerated ==
    [][/\ last'.op = "add_task" =>
             /\ last'.result = Returned
             /\ Len(tasks') = Len(tasks) + 1
             /\ last'.id = Len(tasks')
             /\ (\E i \in 1..Len(tasks'[last'.id].dependencies) :
                     tasks'[last'.id].dependencies[i] \notin 1..Len(tasks'))
                => Reported(GetDependencyViolations(tasks'), last'.id,
                            MISSING_DEPENDENCY)
       /\ (last'.op = "update_task_status" /\ last'.id \in TaskKeys) =>
             /\ last'.result = Returned
             /\ (/\ tasks'[last'.id].status = IN_PROGRESS
                 /\ \E d \in TaskKeys :
                       /\ InList(d, tasks'[last'.id].dependencies)
                       /\ tasks'[d].status /= COMPLETED)
                => Reported(GetDependencyViolations(tasks'), last'.id,
                            PREMATURE_START)]_vars

\* C18 witness: update_task_status has just put IN_PROGRESS a task that is
\* on a dependency cycle, with its dependency not COMPLETED; the
\* detector reports premature_start and circular_dependency for it.
C18_Witness ==
    /\ last.op = "update_task_status"
    /\ last.result = Returned
    /\ tasks[last.id].status = IN_PROGRESS
    /\ HasIncompleteDependency(last.id)
    /\ ~Acyclic
    /\ Reported(dependency_violations, last.id, PREMATURE_START)
    /\ Reported(dependency_violations, last.id, CIRCULAR_DEPENDENCY)

(* ------------------------ claims on escalation ------------------------ *)

\* C20: after escalate_blocker on a blocker of the store its escalated flag
\* is true; on a blocker that is already escalated the call changes neither
\* store; and no call, resolve_blocker included, takes a blocker out of the
\* store or sets its escalated flag back to false.
C20_EscalateMonotone ==
    [][/\ \A b \in BlockerKeys :
             blockers[b].escalated =>
                 b \in 1..Len(blockers') /\ blockers'[b].escalated
       /\ (last'.op = "escalate_blocker" /\ last'.id \in BlockerKeys) =>
             /\ last'.result = Returned
             /\ blockers'[last'.id].escalated
             /\ blockers[last'.id].escalated =>
                    (blockers' = blockers /\ tasks' = tasks)]_vars

\* C20 witness: resolve_blocker has just resolved a blocker that had been
\* escalated, and the blocker is still escalated.
C20_Witness ==
    /\ last.op = "resolve_blocker"
    /\ last.result = Returned
    /\ blockers[last.id].resolved_date /= None
    /\ blockers[last.id].escalated

(* ------------------------- claims on the files ------------------------ *)

\* C19: after save_to_file on a store with tasks, load_from_file into an
\* empty tracker gives the
\* saved state: the same tasks with their status, priority, dependencies and
\* blocks, and the same blockers, open or resolved.
C19_RoundTrip ==
    (last.op = "save_to_file" /\ Len(tasks) > 0) =>
        /\ last.result = Returned
        /\ Loaded(file).raised = ""
        /\ Loaded(file).tasks = tasks
        /\ Loaded(file).blockers = blockers

C21_NeverDeleted ==
    [][/\ Len(tasks') >= Len(tasks)
       /\ Len(blockers') >= Len(blockers)
       /\ \A b \in BlockerKeys :
             /\ blockers'[b].task_id = blockers[b].task_id
             /\ blockers'[b].reported_date = blockers[b].reported_date]_vars

\* C21 witness: a blocker reported on an earlier day has just been resolved;
\* it is still in the store with its task and its reported_date.
C21_Witness ==
    /\ last.op = "resolve_blocker"
    /\ last.result = Returned
    /\ blockers[last.id].resolved_date = Some(now)
    /\ blockers[last.id].reported_date < now
    /\ blockers[last.id].task_id \in TaskKeys

\* C22: a start_date that is set is not overwritten by any later call, and
\* a NOT_STARTED task that has no start_date gets one when it is put
\* IN_PROGRESS.
C22_StartDateKept ==
    [][\A t \in TaskKeys :
          /\ tasks[t].start_date /= None =>
                tasks'[t].start_date = tasks[t].start_date
          /\ (/\ tasks[t].start_date = None
              /\ tasks[t].status = NOT_STARTED
              /\ tasks'[t].status = IN_PROGRESS) =>
                tasks'[t].start_date = Some(now)]_vars

(* ------------------- claims on blockers and status -------------------- *)

\* C36: in every reachable state every task with an open blocker is BLOCKED
\* or COMPLETED.
C36_OpenBlockerMeansBlocked ==
    \A t \in TaskKeys :
        ActiveBlockers(blockers, t) /= {} =>
            tasks[t].status \in {BLOCKED, COMPLETED}

\* C38: resolve_blocker changes only resolved_date and resolution_notes of
\* the blocker it resolves and at most the status of that blocker's task:
\* every other blocker and task is as it was, so are the other fields of the
\* task (completion_percentage, start_date and end_date among them), and the
\* status of the task is as it was when it was not BLOCKED.
C38_ResolveFrame ==
    [][Called("resolve_blocker") =>
          LET b == last'.id
              t == blockers[b].task_id
          IN  /\ Len(blockers') = Len(blockers)
              /\ \A c \in BlockerKeys \ {b} : blockers'[c] = blockers[c]
              /\ [blockers'[b] EXCEPT
                     !.resolved_date = blockers[b].resolved_date,
                     !.resolution_notes = blockers[b].resolution_notes]
                  = blockers[b]
              /\ Len(tasks') = Len(tasks)
              /\ \A u \in TaskKeys \ {t} : tasks'[u] = tasks[u]
              /\ [tasks'[t] EXCEPT !.status = tasks[t].status] = tasks[t]
              /\ tasks[t].status /= BLOCKED =>
                    tasks'[t].status = tasks[t].status]_vars

\* C38 witness: resolve_blocker has just put back to NOT_STARTED a task that
\* had been started, which keeps its start_date, while another task is in
\* the store.
C38_Witness ==
    /\ last.op = "resolve_blocker"
    /\ last.result = Returned
    /\ tasks[blockers[last.id].task_id].status = NOT_STARTED
    /\ tasks[blockers[last.id].task_id].start_date /= None
    /\ Len(tasks) = 2

\* C37: in every reachable state every IN_PROGRESS task has its start_date
\* set and every COMPLETED task has its end_date set, whatever the status
\* before the transition.
C37_DatesSet ==
    \A t \in TaskKeys :
        /\ tasks[t].status = IN_PROGRESS => tasks[t].start_date /= None
        /\ tasks[t].status = COMPLETED => tasks[t].end_date /= None

(* ----------------------- claims on termination ------------------------ *)

\* C35: on every non-empty store, with dependency cycles, dangling and
\* duplicate dependency entries, calculate_critical_path ends: the queue loop
\* dequeues each task at most once, and the walk over the predecessors from
\* the end task reaches a task without predecessor, passing no task twice.
C35_PathTerminates ==
    Len(tasks) > 0 =>
        LET st == TopoPass(tasks)
            end_task == EndTask(tasks, st.distances)
            path == Walk(st.predecessors, end_task, Len(tasks))
        IN  /\ \A i, j \in 1..Len(st.popped) :
                  i /= j => st.popped[i] /= st.popped[j]
            /\ WalkEnds(st.predecessors, end_task, Len(tasks))
            /\ \A i, j \in 1..Len(path) : i /= j => path[i] /= path[j]

\* C35 witness: calculate_critical_path returns a path of two tasks on a
\* store of three tasks with a dependency cycle, a duplicate dependency
\* entry and two tasks dequeued.
C35_Witness ==
    /\ Len(tasks) = 3
    /\ critical_path.raised = ""
    /\ ~Acyclic
    /\ \E t \in TaskKeys :
          /\ Len(tasks[t].dependencies) = 2
          /\ tasks[t].dependencies[1] = tasks[t].dependencies[2]
    /\ Len(topo_pass.popped) = 2
    /\ Len(critical_path.path) = 2

\* C39: the returned path is a chain of dependencies without a repeated
\* task: of two consecutive tasks the first is in the dependency list of the
\* second, and the first task of the path was dequeued by the topological
\* pass and has no recorded predecessor.
C39_PathIsChain ==
    (Len(tasks) > 0 /\ critical_path.raised = "") =>
        LET path == critical_path.path
        IN  /\ \A i, j \in 1..Len(path) : i /= j => path[i] /= path[j]
            /\ \A i \in 1..(Len(path) - 1) :
                  InList(path[i], tasks[path[i + 1]].dependencies)
            /\ path[1] \in Processed
            /\ topo_pass.predecessors[path[1]] = NoTask

(* ------------------ claims on the violation detector ------------------ *)

\* Number of reports of the type for task t and dependency d.
Reports(violations, t, d, type) ==
    Cardinality({i \in 1..Len(violations) :
                    /\ violations[i].task_id = t
                    /\ violations[i].dep_id = d
                    /\ violations[i].type = type})

\* C32: the detector reports circular_dependency for task t and dependency d
\* exactly when d is in the store and t is in d's own dependency list, once
\* for each of the two tasks; a task on a longer cycle only gets no such
\* report.
C32_CircularExactly ==
    \A t \in TaskKeys, d \in GraphIds :
        Reports(dependency_violations, t, d, CIRCULAR_DEPENDENCY) =
            IF /\ InList(d, tasks[t].dependencies)
               /\ d \in TaskKeys
               /\ InList(t, tasks[d].dependencies)
            THEN 1 ELSE 0

\* C33: the detector reports premature_start for task t and dependency d
\* exactly when d is in the store, t is IN_PROGRESS and d is not COMPLETED;
\* holding in every state, the report stays from the update_task_status
\* call that started t until d is COMPLETED or t leaves IN_PROGRESS.
C33_PrematureExactly ==
    \A t \in TaskKeys, d \in TaskIds :
        Reports(dependency_violations, t, d, PREMATURE_START) >= 1
        <=> /\ InList(d, tasks[t].dependencies)
            /\ d \in TaskKeys
            /\ tasks[t].status = IN_PROGRESS
            /\ tasks[d].status /= COMPLETED

\* C33 witness: task t was started before its dependency d; a later
\* update_task_status call has left d short of COMPLETED, and t is still
\* reported.
C33_Witness ==
    /\ last.op = "update_task_status"
    /\ last.result = Returned
    /\ tasks[last.id].status \in {IN_PROGRESS, ON_HOLD, BLOCKED}
    /\ \E t \in TaskKeys \ {last.id} :
          /\ tasks[t].status = IN_PROGRESS
          /\ InList(last.id, tasks[t].dependencies)
          /\ Reports(dependency_violations, t, last.id, PREMATURE_START) = 1

(* ------------------------- claims on the reads ------------------------ *)

\* C34: in every reachable state, the empty store, a store with a task
\* ON_HOLD and a store with cycles or dangling dependencies included,
\* calculate_critical_path, get_project_health and get_agent_workload return
\* a result (get_ready_tasks, get_blocked_tasks and
\* get_dependency_violations have no statement that raises).
C34_ReadsReturn ==
    /\ critical_path.raised = ""
    /\ project_health.raised = ""
    /\ agent_workload.raised = ""

(* ----------------------- claims on overdue tasks ---------------------- *)

\* C31: get_overdue_tasks returns exactly the tasks whose status is
\* IN_PROGRESS or BLOCKED, whose start_date is set and whose whole days since
\* start_date exceed estimated_days, each once; a task that resolve_blocker
\* has put back to NOT_STARTED is not returned however long ago it started.
C31_OverdueExactly ==
    LET result == GetOverdueTasks(tasks, now)
    IN  /\ \A t \in TaskKeys :
              Count(result, t) =
                  IF /\ tasks[t].status \in {IN_PROGRESS, BLOCKED}
                     /\ tasks[t].start_date /= None
                     /\ now - tasks[t].start_date[1] > tasks[t].estimated_days
                  THEN 1 ELSE 0
        /\ \A i \in 1..Len(result) : result[i] \in TaskKeys
        /\ \A t \in TaskKeys :
              tasks[t].status = NOT_STARTED => ~InList(t, result)

\* C31 witness: a task was started, then blocked, two days have passed, more
\* than its estimated_days, and resolve_blocker has just put it back to
\* NOT_STARTED: the result, which held the task before the call, is empty.
C31_Witness ==
    /\ last.op = "resolve_blocker"
    /\ last.result = Returned
    /\ \E t \in TaskKeys :
          /\ tasks[t].status = NOT_STARTED
          /\ tasks[t].start_date /= None
          /\ now - tasks[t].start_date[1] > tasks[t].estimated_days
    /\ GetOverdueTasks(tasks, now) = <<>>

(* ------------------ claims on the end of the path --------------------- *)

\* distance + estimated_days of task t after the topological pass.
Finish(t) == topo_pass.distances[t] + tasks[t].estimated_days

\* C27: the last task of the returned path is the task with the maximum of
\* distance + estimatedDays over all tasks, the one created first among
\* several with that maximum.  Stated for acyclic stores without dangling
\* dependencies and with positive estimatedDays, so that a violation owes
\* nothing to C10 or C16.
C27_EndIsLongestFinish ==
    (/\ Len(tasks) > 0
     /\ critical_path.raised = ""
     /\ NoDangling
     /\ Acyclic
     /\ \A t \in TaskKeys : tasks[t].estimated_days >= 1)
    => LET end == critical_path.path[Len(critical_path.path)]
       IN  /\ \A u \in TaskKeys : Finish(u) <= Finish(end)
           /\ \A u \in 1..(end - 1) : Finish(u) < Finish(end)

(* -------------------- claims on float and risk ------------------------ *)

\* C28: total_float is the project window (112 days) minus total_duration,
\* and risk_level is the HIGH level exactly when total_float < 0, the MEDIUM
\* level exactly when 0 <= total_float < 7, the LOW level exactly when
\* total_float >= 7.
C28_FloatAndRisk ==
    (last.op = "calculate_critical_path" /\ last.result.raised = "")
    => LET r == last.result
       IN  /\ r.total_float = 112 - r.total_duration
           /\ r.total_duration = PathDays(r.path)
           /\ r.risk_level = "HIGH - Project behind schedule"
                 <=> r.total_float < 0
           /\ r.risk_level = "MEDIUM - Limited schedule buffer"
                 <=> (0 <= r.total_float /\ r.total_float < 7)
           /\ r.risk_level = "LOW - Adequate schedule buffer"
                 <=> r.total_float >= 7

\* C28 witness: calculate_critical_path has returned a path of two tasks
\* with a float of 6 and the MEDIUM level.
C28_Witness ==
    /\ last.op = "calculate_critical_path"
    /\ last.result.raised = ""
    /\ Len(last.result.path) = 2
    /\ last.result.total_float = 6
    /\ last.result.risk_level = "MEDIUM - Limited schedule buffer"

(* ----------------------- claims on ready tasks ------------------------ *)

\* C26: get_ready_tasks returns every task whose status is NOT_STARTED, whose
\* existing dependencies are all COMPLETED and which has no open blocker; so
\* a NOT_STARTED task without open blocker is returned in the state right
\* after its last incomplete dependency is set to COMPLETED.
C26_ReadyComplete ==
    \A t \in TaskKeys :
        (/\ tasks[t].status = NOT_STARTED
         /\ ~HasIncompleteDependency(t)
         /\ ActiveBlockers(blockers, t) = {})
        => InList(t, ready_tasks)

\* C26 witness: update_task_status has just COMPLETED a task, and a
\* NOT_STARTED task that depends on it is returned.
C26_Witness ==
    /\ last.op = "update_task_status"
    /\ last.result = Returned
    /\ tasks[last.id].status = COMPLETED
    /\ \E t \in TaskKeys :
          /\ tasks[t].status = NOT_STARTED
          /\ InList(last.id, tasks[t].dependencies)
          /\ InList(t, ready_tasks)

\* A NOT_STARTED task whose only dependency is on no task of the store is
\* returned (reachable too).
C26_DanglingReady ==
    \E t \in TaskKeys :
        /\ tasks[t].dependencies /= <<>>
        /\ \A i \in 1..Len(tasks[t].dependencies) :
              tasks[t].dependencies[i] \notin TaskKeys
        /\ InList(t, ready_tasks)

\* C29: the list get_ready_tasks returns is in the order of urgency rank
\* (CRITICAL, HIGH, MEDIUM, LOW), tasks of one priority in the order of
\* estimated_days ascending, and tasks equal on both in the order of their
\* creation.
C29_ReadyOrder ==
    \A i \in 1..Len(ready_tasks), j \in 1..Len(ready_tasks) :
        i < j =>
            LET x == tasks[ready_tasks[i]]
                y == tasks[ready_tasks[j]]
                Rank(p) == CASE p = CRITICAL -> 1 [] p = HIGH -> 2
                             [] p = MEDIUM -> 3 [] p = LOW -> 4
            IN  /\ Rank(x.priority) <= Rank(y.priority)
                /\ x.priority = y.priority => x.estimated_days <= y.estimated_days
                /\ (x.priority = y.priority /\ x.estimated_days = y.estimated_days)
                      => ready_tasks[i] < ready_tasks[j]

\* C29 witness: of three ready tasks the last created is returned first, and
\* the other two, equal in priority and estimated_days, follow in the order
\* of their creation.
C29_Witness ==
    /\ ready_tasks = <<3, 1, 2>>
    /\ tasks[1].priority = tasks[2].priority
    /\ tasks[1].estimated_days = tasks[2].estimated_days
    /\ tasks[3].priority = tasks[1].priority
    /\ tasks[3].estimated_days < tasks[1].estimated_days

(* ---------------------- claims on blocked tasks ----------------------- *)

\* The entry of task t in a result of get_blocked_tasks, if there is one.
BlockedEntries(result, t) ==
    {i \in 1..Len(result) : result[i].task_id = t}

\* The result lists each BLOCKED task once and no other task, each with the
\* descriptions of its open blockers and no other description.
ExactlyBlocked(store, bs, result) ==
    /\ \A t \in 1..Len(store) :
          Cardinality(BlockedEntries(result, t)) =
              IF store[t].status = BLOCKED THEN 1 ELSE 0
    /\ \A i \in 1..Len(result) :
          LET t == result[i].task_id
              descs == result[i].active_blockers
              open == ActiveBlockers(bs, t)
          IN  /\ t \in 1..Len(store)
              /\ Len(descs) = Cardinality(open)
              /\ \A b \in open : InList(bs[b].description, descs)
              /\ \A k \in 1..Len(descs) :
                    \E b \in open : bs[b].description = descs[k]

\* After the resolve_blocker call that leaves its task without an open
\* blocker the task is not in the result.
GoneWhenResolved ==
    (Called("resolve_blocker")
     /\ ActiveBlockers(blockers', blockers'[last'.id].task_id) = {})
    => BlockedEntries(GetBlockedTasks(tasks', blockers'),
                      blockers'[last'.id].task_id) = {}

\* After add_blocker the result has the task, with the new description.
ListedWhenBlocked ==
    LET result == GetBlockedTasks(tasks', blockers')
    IN  \E i \in BlockedEntries(result, last'.id) :
            InList(blockers'[Len(blockers')].description, result[i].active_blockers)

\* C25 as claimed: get_blocked_tasks returns exactly the BLOCKED tasks, each
\* with the descriptions of its unresolved blockers only; after add_blocker
\* on any task the result has that task with that description; after the
\* task's blockers are all resolved the task is not in the result.
C25_BlockedTasksAnyTask ==
    [][/\ ExactlyBlocked(tasks', blockers', GetBlockedTasks(tasks', blockers'))
       /\ Called("add_blocker") => ListedWhenBlocked
       /\ GoneWhenResolved]_vars

\* C25 amended: the same, with add_blocker on a task that is not COMPLETED.
C25_BlockedTasks ==
    [][/\ ExactlyBlocked(tasks', blockers', GetBlockedTasks(tasks', blockers'))
       /\ (Called("add_blocker") /\ tasks[last'.id].status /= COMPLETED)
             => ListedWhenBlocked
       /\ GoneWhenResolved]_vars

\* C25 witness: add_blocker has just blocked a task that has a resolved
\* blocker too, and the result lists the task with the new description only.
C25_Witness ==
    /\ last.op = "add_blocker"
    /\ last.result = Returned
    /\ \E b \in BlockerKeys :
          blockers[b].task_id = last.id /\ blockers[b].resolved_date /= None
    /\ GetBlockedTasks(tasks, blockers) =
          <<[task_id |-> last.id,
             active_blockers |-> <<blockers[Len(blockers)].description>>]>>

(* --------------------- claims on agent workload ----------------------- *)

\* estimated_days x (100 - completion_percentage) summed over the agent's
\* tasks that are not COMPLETED, from task i on.
RECURSIVE OpenWork(_, _)
OpenWork(agent, i) ==
    IF i > Len(tasks) THEN 0
    ELSE (IF tasks[i].agent = agent /\ tasks[i].status /= COMPLETED
          THEN tasks[i].estimated_days * (100 - tasks[i].completion_percentage)
          ELSE 0)
         + OpenWork(agent, i + 1)

\* C30: get_agent_workload returns, for each agent, remaining_days summed
\* over the agent's tasks that are not COMPLETED (NOT_STARTED, IN_PROGRESS,
\* BLOCKED and ON_HOLD) as estimated_days x (1 - completion_percentage/100),
\* and per-status counts that add up to the number of the agent's tasks.
C30_Workload ==
    /\ agent_workload.raised = ""
    /\ \A t \in TaskKeys :
          LET a == tasks[t].agent
              w == agent_workload.workload
          IN  /\ a \in DOMAIN w
              /\ w[a].remaining_days = OpenWork(a, 1)
              /\ w[a].not_started + w[a].in_progress + w[a].blocked
                    + w[a].completed
                  = Cardinality({u \in TaskKeys : tasks[u].agent = a})

(* ----------------------- claims on interleaving ----------------------- *)

\* add_task has put its task in the store and has not yet appended it to
\* the blocks list of a dependency that is in the store.
HalfAddedTask ==
    /\ InCall("add_task")
    /\ \E i \in 1..Len(pending[1].rest) : pending[1].rest[i] \in TaskKeys

\* add_blocker has put its blocker in the store and its task, which is not
\* COMPLETED, is not yet BLOCKED.
HalfAddedBlocker ==
    /\ InCall("add_blocker")
    /\ tasks[pending[1].id].status \notin {BLOCKED, COMPLETED}

\* C23: a read that another caller runs while a mutating call is in
\* progress finds neither a task in the store whose dependencies' blocks
\* lists are not yet updated nor a blocker in the store whose task is not
\* yet BLOCKED.
C23_NoHalfApplied ==
    last.op = "read" => ~HalfAddedTask /\ ~HalfAddedBlocker

====
